---- MODULE Spec2Model ----
(***************************************************************************)
(* A model of Videotosrt.py: the AdvancedSubtitleGenerator pipeline        *)
(* (normalise recognizer results, pack utterances into cues, render SRT)   *)
(* and the main() batch loop around it.                                    *)
(*                                                                         *)
(* Strings are sequences of one-character strings.  Times are integers in  *)
(* ticks of a fifth of a millisecond, so that both the two-decimal         *)
(* rounding of the normalizer and the three-decimal rounding of the        *)
(* timecode formatter are computed, not assumed.                           *)
(***************************************************************************)
EXTENDS Integers, Sequences, FiniteSets, TLC

\* ------------------------------------------------------------------ bounds
MaxItems == 3        \* utterances given to the optimizer
MaxTime == 2         \* utterance times range over 0..MaxTime centiseconds
MaxTextLen == 2      \* letters of an utterance text before its full stop
MaxCues == 2         \* cues given to the renderer on its own
MaxGroups == 1       \* non-final result groups the recognizer emits per file

\* ------------------------------------------------------------------- units
TicksPerSecond == 5 * 1000
TicksPerMs == TicksPerSecond \div 1000
TicksPerCs == TicksPerSecond \div 100
SecondsPerHour == 3600
SecondsPerMinute == 60

\* ----------------------------------------------------------------- strings
NL == "\n"

RECURSIVE Repeat(_, _)
Repeat(c, n) == IF n <= 0 THEN << >> ELSE <<c>> \o Repeat(c, n - 1)

RECURSIVE JoinWith(_, _)
\* sep.join(parts) for a sequence of strings
JoinWith(sep, parts) ==
    IF Len(parts) = 0 THEN << >>
    ELSE IF Len(parts) = 1 THEN parts[1]
    ELSE parts[1] \o sep \o JoinWith(sep, Tail(parts))

RECURSIVE SplitOn(_, _)
\* s.split(c) for a one-character separator c: always at least one piece
SplitOn(c, s) ==
    IF \A i \in 1..Len(s) : s[i] # c THEN << s >>
    ELSE LET k == CHOOSE i \in 1..Len(s) :
                      s[i] = c /\ \A j \in 1..(i - 1) : s[j] # c
         IN << SubSeq(s, 1, k - 1) >> \o SplitOn(c, SubSeq(s, k + 1, Len(s)))

RECURSIVE SumOf(_)
SumOf(ns) == IF Len(ns) = 0 THEN 0 ELSE ns[1] + SumOf(Tail(ns))

RECURSIVE Flatten(_)
Flatten(ss) == IF Len(ss) = 0 THEN << >> ELSE ss[1] \o Flatten(Tail(ss))

\* np.mean over integer percentages, truncated to a whole percent
Mean(ns) == SumOf(ns) \div Len(ns)

\* ---------------------------------------------------------------- optimizer
\* the condition of lines 151-156, for a non-empty buffer
CanAppend_strictDuration(buffer, item, cfg) ==
    LET current_duration == item.end - buffer[1].start
        current_length == SumOf([i \in 1..Len(buffer) |-> Len(buffer[i].text)])
                              + Len(item.text)
    IN  /\ current_duration < cfg.max_duration
        /\ current_length <= cfg.max_chars * cfg.max_lines
        /\ Len(buffer) < cfg.max_lines

CanAppend_fullBuffer(buffer, item, cfg) ==
    LET current_duration == item.end - buffer[1].start
        current_length == SumOf([i \in 1..Len(buffer) |-> Len(buffer[i].text)])
                              + Len(item.text)
    IN  /\ current_duration <= cfg.max_duration
        /\ current_length <= cfg.max_chars * cfg.max_lines
        /\ Len(buffer) <= cfg.max_lines

CanAppend(buffer, item, cfg) ==
    LET current_duration == item.end - buffer[1].start
        current_length == SumOf([i \in 1..Len(buffer) |-> Len(buffer[i].text)])
                              + Len(item.text)
    IN  /\ current_duration <= cfg.max_duration
        /\ current_length <= cfg.max_chars * cfg.max_lines
        /\ Len(buffer) < cfg.max_lines

\* _merge_segment
MergeSegment(items) ==
    [ start      |-> items[1].start,
      end        |-> items[Len(items)].end,
      text       |-> JoinWith(<<NL>>, [i \in 1..Len(items) |-> items[i].text]),
      confidence |-> Mean([i \in 1..Len(items) |-> items[i].confidence]),
      speaker    |-> items[1].speaker ]

\* one iteration of the for loop of _optimize_segmentation on the loop state
\* st = [optimized, buffer, merged_from]; merged_from records the argument of
\* every _merge_segment call, i.e. the constituent utterances of each cue
OptimizeStep_dropsItem(st, item, cfg) ==
    IF Len(st.buffer) = 0
    THEN [st EXCEPT !.buffer = <<item>>]
    ELSE IF CanAppend(st.buffer, item, cfg)
    THEN [st EXCEPT !.buffer = Append(st.buffer, item)]
    ELSE [ optimized   |-> Append(st.optimized, MergeSegment(st.buffer)),
           merged_from |-> Append(st.merged_from, st.buffer),
           buffer      |-> << >> ]

OptimizeStep(st, item, cfg) ==
    IF Len(st.buffer) = 0
    THEN [st EXCEPT !.buffer = <<item>>]
    ELSE IF CanAppend(st.buffer, item, cfg)
    THEN [st EXCEPT !.buffer = Append(st.buffer, item)]
    ELSE [ optimized   |-> Append(st.optimized, MergeSegment(st.buffer)),
           merged_from |-> Append(st.merged_from, st.buffer),
           buffer      |-> <<item>> ]

\* lines 162-165: the final flush
OptimizeFlush(st) ==
    IF Len(st.buffer) > 0
    THEN [ optimized   |-> Append(st.optimized, MergeSegment(st.buffer)),
           merged_from |-> Append(st.merged_from, st.buffer),
           buffer      |-> << >> ]
    ELSE st

\* ---------------------------------------------------------------- formatter
DigitChars == << "0", "1", "2", "3", "4", "5", "6", "7", "8", "9" >>

RECURSIVE Digits(_)
\* str(n) for a natural number n
Digits(n) ==
    IF n < 10 THEN << DigitChars[n + 1] >>
    ELSE Digits(n \div 10) \o << DigitChars[(n % 10) + 1] >>

\* zero padding to a minimum width: the 0w of a format specification
ZeroPad(s, w) == Repeat("0", w - Len(s)) \o s

\* str.replace for one-character strings
Replace(s, old, new) == [i \in 1..Len(s) |-> IF s[i] = old THEN new ELSE s[i]]

\* rounding of a tick count to the nearest multiple of unit, ties to even
\* (a millisecond is an odd number of ticks: no tie arises in the formatter)
RoundTo(t, unit) ==
    LET q == t \div unit
        r == t % unit
    IN  IF 2 * r > unit \/ (2 * r = unit /\ q % 2 = 1) THEN q + 1 ELSE q

\* f"{seconds:06.3f}": three decimals, rounded, zero padded to width 6
FormatSeconds(ticks) ==
    LET ms == RoundTo(ticks, TicksPerMs)
    IN  ZeroPad(Digits(ms \div 1000) \o <<".">> \o ZeroPad(Digits(ms % 1000), 3), 6)

\* _format_time on a time in ticks
FormatTime(t) ==
    LET hours == t \div (SecondsPerHour * TicksPerSecond)
        remainder == t % (SecondsPerHour * TicksPerSecond)
        minutes == remainder \div (SecondsPerMinute * TicksPerSecond)
        seconds == remainder % (SecondsPerMinute * TicksPerSecond)
    IN  Replace(ZeroPad(Digits(hours), 2) \o <<":">>
                    \o ZeroPad(Digits(minutes), 2) \o <<":">>
                    \o FormatSeconds(seconds),
                ".", ",")

\* ----------------------------------------------------------------- renderer
Arrow == << " ", "-", "-", ">", " " >>

\* the speaker prefix of line 182
SpeakerPrefix(seg, cfg) ==
    IF cfg.speaker_diarization THEN <<"[">> \o seg.speaker \o <<"]", " ">>
    ELSE << >>

\* the block of line 183 for the cue seg numbered idx
RenderBlock(idx, seg, cfg) ==
    Digits(idx) \o <<NL>>
        \o FormatTime(seg.start) \o Arrow \o FormatTime(seg.end) \o <<NL>>
        \o SpeakerPrefix(seg, cfg) \o seg.text \o <<NL>>

\* lines 178-183 with enumerate(segments, 1)
SrtContent_fromZero(segments, cfg) ==
    [k \in 1..Len(segments) |-> RenderBlock(k - 1, segments[k], cfg)]

SrtContent(segments, cfg) ==
    [k \in 1..Len(segments) |-> RenderBlock(k, segments[k], cfg)]

\* the text handed to write_text on line 185
SrtDocument(segments, cfg) == JoinWith(<<NL>>, SrtContent(segments, cfg))

\* --------------------------------------------------------------- normalizer
Lowers == << "a", "b", "h", "i" >>
Uppers == << "A", "B", "H", "I" >>

Upper(c) ==
    IF \E k \in 1..Len(Lowers) : Lowers[k] = c
    THEN Uppers[CHOOSE k \in 1..Len(Lowers) : Lowers[k] = c] ELSE c

Lower(c) ==
    IF \E k \in 1..Len(Uppers) : Uppers[k] = c
    THEN Lowers[CHOOSE k \in 1..Len(Uppers) : Uppers[k] = c] ELSE c

\* str.capitalize
Capitalize(s) == [i \in 1..Len(s) |-> IF i = 1 THEN Upper(s[i]) ELSE Lower(s[i])]

RECURSIVE LStrip(_)
LStrip(s) == IF Len(s) > 0 /\ s[1] \in {" ", NL} THEN LStrip(Tail(s)) ELSE s

RECURSIVE RStrip(_)
RStrip(s) ==
    IF Len(s) > 0 /\ s[Len(s)] \in {" ", NL}
    THEN RStrip(SubSeq(s, 1, Len(s) - 1)) ELSE s

\* str.strip
Strip(s) == LStrip(RStrip(s))

\* round(x, 2) on a time in ticks
Round2(t) == RoundTo(t, TicksPerCs) * TicksPerCs

\* _restore_punctuation: the punctuator is an external model; its behaviours
\* here are to return the text, to end it with a question mark, or to return
\* it followed by a space
RestorePunctuation(text, punctuator) ==
    CASE punctuator = "none"     -> text
      [] punctuator = "echo"     -> text
      [] punctuator = "question" -> text \o <<"?">>
      [] punctuator = "spaced"   -> text \o <<" ">>

\* the result dictionary has a non-empty 'result' list (res.get('result'))
HasWords(res) == res.has_result /\ Len(res.result) > 0

\* the key lookups of lines 125-137 all succeed on the word list
WordsWellFormed(words) ==
    /\ "start" \in words[1].keys
    /\ "end" \in words[Len(words)].keys
    /\ \A i \in 1..Len(words) : {"word", "conf"} \subseteq words[i].keys

\* lines 124-139 for one result with a well-formed, non-empty word list
NormalizeGroup(res, punctuator) ==
    LET words == res.result
        raw_text == JoinWith(<<" ">>, [i \in 1..Len(words) |-> words[i].word])
        restored == RestorePunctuation(raw_text, punctuator)
        text == IF Len(restored) > 0 /\ restored[Len(restored)] \notin {".", "?", "!"}
                THEN restored \o <<".">> ELSE restored
    IN  [ start      |-> Round2(words[1].start),
          end        |-> Round2(words[Len(words)].end),
          text       |-> Capitalize(Strip(text)),
          confidence |-> Mean([i \in 1..Len(words) |-> words[i].conf]),
          speaker    |-> << "S", "P", "K", "1" >> ]

RECURSIVE ProcessResults(_, _)
\* _process_results: [ok, value] where ok is FALSE when a lookup raises
ProcessResults(results, punctuator) ==
    IF Len(results) = 0 THEN [ok |-> TRUE, value |-> << >>]
    ELSE LET res == results[1]
             rest == ProcessResults(Tail(results), punctuator)
         IN  IF ~HasWords(res) THEN rest
             ELSE IF ~WordsWellFormed(res.result) THEN [ok |-> FALSE, value |-> << >>]
             ELSE IF ~rest.ok THEN rest
             ELSE [ok |-> TRUE,
                   value |-> <<NormalizeGroup(res, punctuator)>> \o rest.value]

\* line 102 for a result returned by Result(): both lookups of result['result']
\* and the lookup of the last word's 'end' succeed
ProgressUpdateOk(res) ==
    /\ res.has_result
    /\ Len(res.result) > 0 => "end" \in res.result[Len(res.result)].keys

\* ------------------------------------------------------------ process_file
\* the order of the calls of lines 197-205
NextStage_writesFirst(stage) ==
    CASE stage = "enhance"    -> "transcribe"
      [] stage = "transcribe" -> "generate"
      [] stage = "generate"   -> "optimize"
      [] stage = "optimize"   -> "cleanup"
      [] stage = "cleanup"    -> "idle"

NextStage(stage) ==
    CASE stage = "enhance"    -> "transcribe"
      [] stage = "transcribe" -> "optimize"
      [] stage = "optimize"   -> "generate"
      [] stage = "generate"   -> "cleanup"
      [] stage = "cleanup"    -> "idle"

\* Path(video_path).stem
Stem(video_path) == SubSeq(video_path, 1, Len(video_path) - 4)

\* ------------------------------------------------------------------- state
VARIABLES
    config,       \* the config dictionary; config.keys is the set of its keys
    punctuator,   \* self.punctuator: "none" or the behaviour of the loaded model
    main_pc,      \* main(): "construct", "loop", "done" or "raised"
    error,        \* the exception that left main(), "none" when there is none
    video_index,  \* position of the for loop of line 250 in video_paths
    pf_pc,        \* process_file: the call it is about to make, or "idle"
    audio_files,  \* indices of the videos whose temp_*.wav file exists
    results,      \* the results list of _transcribe_audio
    items,        \* the utterances given to _optimize_segmentation
    pos,          \* index of the next item of the for loop of line 146
    opt,          \* the loop state [optimized, buffer, merged_from]
    files,        \* output stem -> [exists, text] of <stem>.srt
    fmt_in,       \* argument of a direct _format_time call
    fmt_out       \* its result

vars == << config, punctuator, main_pc, error, video_index, pf_pc, audio_files,
           results, items, pos, opt, files, fmt_in, fmt_out >>

\* a path that does not exist, and a _format_time call not yet made
NoFile == [ exists |-> FALSE, text |-> << >> ]
NoOutput == [ returned |-> FALSE, text |-> << >> ]

DefaultMaxDuration == 8 * TicksPerSecond
DefaultMaxChars == 45
DefaultMaxLines == 2

RequiredKeys == { "video_paths", "output_dir", "model_path" }

EmptyOpt == [ optimized |-> << >>, buffer |-> << >>, merged_from |-> << >> ]

VideoA == << "a", ".", "m", "p", "4" >>
VideoB == << "b", ".", "m", "k", "v" >>
Stems == { Stem(VideoA), Stem(VideoB) }

\* the stem of the output file of the video being processed
CurrentStem == Stem(config.video_paths[video_index])

\* ------------------------------------------------------------ construction
\* _validate_config, lines 39-45: the exception it raises, "none" if it returns
ValidateError(cfg) ==
    IF ~(RequiredKeys \subseteq cfg.keys) THEN "KeyError"
    ELSE IF ~cfg.model_exists THEN "FileNotFoundError"
    ELSE "none"

\* _validate_config, lines 47-56: the setdefault calls on the keys modelled
WithDefaults(cfg) ==
    [cfg EXCEPT !.keys = @ \cup { "max_duration", "max_chars", "max_lines" },
                !.max_duration = IF "max_duration" \in cfg.keys THEN @
                                 ELSE DefaultMaxDuration,
                !.max_chars = IF "max_chars" \in cfg.keys THEN @
                              ELSE DefaultMaxChars,
                !.max_lines = IF "max_lines" \in cfg.keys THEN @
                              ELSE DefaultMaxLines]

PunctuatorModels == { "echo", "question", "spaced" }

\* AdvancedSubtitleGenerator(config) raises from _validate_config
ConstructRaises ==
    /\ main_pc = "construct"
    /\ ValidateError(config) # "none"
    /\ main_pc' = "raised"
    /\ error' = ValidateError(config)
    /\ UNCHANGED << config, punctuator, video_index, pf_pc, audio_files, results,
                    items, pos, opt, files, fmt_in, fmt_out >>

\* AdvancedSubtitleGenerator(config) returns: defaults set, punctuator loaded
Construct ==
    /\ main_pc = "construct"
    /\ ValidateError(config) = "none"
    /\ config' = WithDefaults(config)
    /\ IF config.punctuation
       THEN \E m \in PunctuatorModels : punctuator' = m
       ELSE punctuator' = "none"
    /\ main_pc' = "loop"
    /\ UNCHANGED << error, video_index, pf_pc, audio_files, results, items, pos,
                    opt, files, fmt_in, fmt_out >>

\* ------------------------------------------------------------------- main
\* an exception in process_file is logged, re-raised (lines 209-211) and,
\* with no handler in main(), ends the run
Raise(kind) ==
    /\ main_pc' = "raised"
    /\ error' = kind
    /\ pf_pc' = "raised"

\* line 250-251: the loop calls process_file on the next video
StartFile ==
    /\ main_pc = "loop"
    /\ pf_pc = "idle"
    /\ video_index < Len(config.video_paths)
    /\ video_index' = video_index + 1
    /\ pf_pc' = "enhance"
    /\ results' = << >>
    /\ items' = << >>
    /\ pos' = 1
    /\ opt' = EmptyOpt
    /\ UNCHANGED << config, punctuator, main_pc, error, audio_files, files,
                    fmt_in, fmt_out >>

\* the loop of line 250 is exhausted
Finish ==
    /\ main_pc = "loop"
    /\ pf_pc = "idle"
    /\ video_index = Len(config.video_paths)
    /\ main_pc' = "done"
    /\ UNCHANGED << config, punctuator, error, video_index, pf_pc, audio_files,
                    results, items, pos, opt, files, fmt_in, fmt_out >>

\* _enhance_audio returns: ffmpeg wrote the temporary wav file
EnhanceAudio ==
    /\ main_pc = "loop"
    /\ pf_pc = "enhance"
    /\ audio_files' = audio_files \cup { video_index }
    /\ pf_pc' = NextStage("enhance")
    /\ UNCHANGED << config, punctuator, main_pc, error, video_index, results,
                    items, pos, opt, files, fmt_in, fmt_out >>

\* _enhance_audio raises CalledProcessError; ffmpeg may leave a file behind
EnhanceAudioFails ==
    /\ main_pc = "loop"
    /\ pf_pc = "enhance"
    /\ \E left \in BOOLEAN :
          audio_files' = IF left THEN audio_files \cup { video_index }
                         ELSE audio_files
    /\ Raise("CalledProcessError")
    /\ UNCHANGED << config, punctuator, video_index, results, items, pos, opt,
                    files, fmt_in, fmt_out >>

\* -------------------------------------------------------------- recognizer
Word(w, s, e, c, ks) == [ word |-> w, start |-> s, end |-> e, conf |-> c, keys |-> ks ]

WordKeys == { "word", "start", "end", "conf" }

\* the result dictionaries the recognizer may return as its i-th result: one
\* word, two words, an empty word list, no 'result' key at all (what Vosk
\* returns for silence), and a word token without its 'conf' field
GroupPool(i) ==
    LET b == (i - 1) * 3 * TicksPerSecond
    IN  { [ has_result |-> TRUE,
            result |-> << Word(<<"h", "i">>, b + 1234, b + 5678, 90, WordKeys) >> ],
          [ has_result |-> TRUE,
            result |-> << Word(<<"A", "b">>, b + 1234, b + 4000, 80, WordKeys),
                          Word(<<"a">>, b + 4100, b + 15049, 61, WordKeys) >> ],
          [ has_result |-> TRUE, result |-> << >> ],
          [ has_result |-> FALSE, result |-> << >> ],
          [ has_result |-> TRUE,
            result |-> << Word(<<"h", "i">>, b + 1234, b + 5678, 90,
                               WordKeys \ {"conf"}) >> ] }

\* the results list of lines 94-103: up to MaxGroups results of Result()
\* followed by the result of FinalResult()
RecognizerOutputs ==
    UNION { { r \in [1..(n + 1) -> UNION { GroupPool(i) : i \in 1..(n + 1) }] :
                  \A i \in 1..(n + 1) : r[i] \in GroupPool(i) } : n \in 0..MaxGroups }

\* _transcribe_audio raises before any result: Model() or wave.open fails
TranscribeFails ==
    /\ main_pc = "loop"
    /\ pf_pc = "transcribe"
    /\ Raise("TranscribeError")
    /\ UNCHANGED << config, punctuator, video_index, audio_files, results, items,
                    pos, opt, files, fmt_in, fmt_out >>

\* _transcribe_audio raises KeyError: on line 102 for a result of Result(),
\* or in _process_results for a word token
TranscribeRaisesKeyError ==
    /\ main_pc = "loop"
    /\ pf_pc = "transcribe"
    /\ \E r \in RecognizerOutputs :
          /\ \/ \E i \in 1..(Len(r) - 1) : ~ProgressUpdateOk(r[i])
             \/ ~ProcessResults(r, punctuator).ok
          /\ results' = r
    /\ Raise("KeyError")
    /\ UNCHANGED << config, punctuator, video_index, audio_files, items, pos, opt,
                    files, fmt_in, fmt_out >>

\* _transcribe_audio returns the utterances of _process_results
Transcribe ==
    /\ main_pc = "loop"
    /\ pf_pc = "transcribe"
    /\ \E r \in RecognizerOutputs :
          /\ \A i \in 1..(Len(r) - 1) : ProgressUpdateOk(r[i])
          /\ ProcessResults(r, punctuator).ok
          /\ results' = r
          /\ items' = ProcessResults(r, punctuator).value
    /\ pos' = 1
    /\ opt' = EmptyOpt
    /\ pf_pc' = NextStage("transcribe")
    /\ UNCHANGED << config, punctuator, main_pc, error, video_index, audio_files,
                    files, fmt_in, fmt_out >>

\* ------------------------------------------------ _optimize_segmentation
\* one iteration of the for loop of line 146
OptimizeIter ==
    /\ main_pc = "loop"
    /\ pf_pc = "optimize"
    /\ pos <= Len(items)
    /\ opt' = OptimizeStep(opt, items[pos], config)
    /\ pos' = pos + 1
    /\ UNCHANGED << config, punctuator, main_pc, error, video_index, pf_pc,
                    audio_files, results, items, files, fmt_in, fmt_out >>

\* lines 162-165: the loop is over, the buffer is flushed, optimized returned
OptimizeReturn ==
    /\ main_pc = "loop"
    /\ pf_pc = "optimize"
    /\ pos > Len(items)
    /\ opt' = OptimizeFlush(opt)
    /\ pf_pc' = NextStage("optimize")
    /\ UNCHANGED << config, punctuator, main_pc, error, video_index, audio_files,
                    results, items, pos, files, fmt_in, fmt_out >>

\* ------------------------------------------------------------ _generate_srt
\* _generate_srt returns: write_text replaced the file by the document
GenerateSrt ==
    /\ main_pc = "loop"
    /\ pf_pc = "generate"
    /\ files' = [files EXCEPT ![CurrentStem] =
                    [ exists |-> TRUE, text |-> SrtDocument(opt.optimized, config) ]]
    /\ pf_pc' = NextStage("generate")
    /\ UNCHANGED << config, punctuator, main_pc, error, video_index, audio_files,
                    results, items, pos, opt, fmt_in, fmt_out >>

\* write_text raises OSError: the file could not be opened and is untouched,
\* or it was opened, hence truncated, and the write failed
GenerateSrtFails ==
    /\ main_pc = "loop"
    /\ pf_pc = "generate"
    /\ \E opened \in BOOLEAN :
          files' = IF opened
                   THEN [files EXCEPT ![CurrentStem] = [ exists |-> TRUE, text |-> << >> ]]
                   ELSE files
    /\ Raise("OSError")
    /\ UNCHANGED << config, punctuator, video_index, audio_files, results, items,
                    pos, opt, fmt_in, fmt_out >>

\* lines 204-207: the temporary wav file is removed unless debug is set
Cleanup ==
    /\ main_pc = "loop"
    /\ pf_pc = "cleanup"
    /\ audio_files' = IF config.debug THEN audio_files
                      ELSE audio_files \ { video_index }
    /\ pf_pc' = NextStage("cleanup")
    /\ UNCHANGED << config, punctuator, main_pc, error, video_index, results,
                    items, pos, opt, files, fmt_in, fmt_out >>

\* ------------------------------------------------------------- _format_time
\* a call of _format_time on its own
FormatCall ==
    /\ ~fmt_out.returned
    /\ fmt_out' = [ returned |-> TRUE, text |-> FormatTime(fmt_in) ]
    /\ UNCHANGED << config, punctuator, main_pc, error, video_index, pf_pc,
                    audio_files, results, items, pos, opt, files, fmt_in >>

\* ----------------------------------------------------------- initial states
SPK1 == << "S", "P", "K", "1" >>

CapKeys == { "max_duration", "max_chars", "max_lines" }
FlagKeys == { "punctuation", "speaker_diarization", "debug" }

\* the dictionary main() builds on lines 226-236 for the default arguments
MainConfig ==
    [ keys                |-> RequiredKeys \cup CapKeys \cup FlagKeys,
      model_exists        |-> TRUE,
      max_duration        |-> DefaultMaxDuration,
      max_chars           |-> DefaultMaxChars,
      max_lines           |-> DefaultMaxLines,
      punctuation         |-> FALSE,
      speaker_diarization |-> FALSE,
      debug               |-> FALSE,
      video_paths         |-> << VideoA >> ]

NoFiles == [ st \in Stems |-> NoFile ]

\* the caps of a run of the whole program: the defaults, a smaller line cap,
\* and each cap in turn outside its documented range
PipelineCaps ==
    { << DefaultMaxDuration, DefaultMaxChars, DefaultMaxLines >>,
      << DefaultMaxDuration, DefaultMaxChars, 1 >>,
      << 0, DefaultMaxChars, DefaultMaxLines >>,
      << DefaultMaxDuration, 0, DefaultMaxLines >>,
      << DefaultMaxDuration, DefaultMaxChars, 0 >> }

PipelineConfigs ==
    { [ MainConfig EXCEPT !.keys = ks, !.model_exists = me,
                          !.max_duration = caps[1], !.max_chars = caps[2],
                          !.max_lines = caps[3], !.punctuation = pu,
                          !.speaker_diarization = sd, !.debug = db,
                          !.video_paths = vp ] :
        ks \in { MainConfig.keys, MainConfig.keys \ {"model_path"},
                 MainConfig.keys \ CapKeys },
        me \in BOOLEAN, caps \in PipelineCaps, pu \in BOOLEAN, sd \in BOOLEAN,
        db \in BOOLEAN,
        vp \in { << >>, << VideoA >>, << VideoA, VideoB >> } }

\* main() is about to construct the generator
Init ==
    /\ config \in PipelineConfigs
    /\ punctuator = "none"
    /\ main_pc = "construct"
    /\ error = "none"
    /\ video_index = 0
    /\ pf_pc = "idle"
    /\ audio_files = { }
    /\ results = << >>
    /\ items = << >>
    /\ pos = 1
    /\ opt = EmptyOpt
    /\ files = NoFiles
    /\ fmt_in = 0
    /\ fmt_out = NoOutput

Next ==
    \/ ConstructRaises
    \/ Construct
    \/ StartFile
    \/ Finish
    \/ EnhanceAudio
    \/ EnhanceAudioFails
    \/ TranscribeFails
    \/ TranscribeRaisesKeyError
    \/ Transcribe
    \/ OptimizeIter
    \/ OptimizeReturn
    \/ GenerateSrt
    \/ GenerateSrtFails
    \/ Cleanup

Spec == Init /\ [][Next]_vars

\* an utterance text of n letters and a full stop, as the normalizer shapes it
Sentence(n) == << "A" >> \o Repeat("b", n - 1) \o << "." >>

UtterancePool ==
    { [ start |-> s * TicksPerCs, end |-> e * TicksPerCs, text |-> Sentence(n),
        confidence |-> 90, speaker |-> SPK1 ] :
        s \in 0..MaxTime, e \in 0..MaxTime, n \in 1..MaxTextLen }

\* the utterance sequences of a timeline: each ends no earlier than it
\* starts and starts no earlier than the one before it ends
UtteranceSeqs ==
    UNION { { u \in [1..n -> UtterancePool] :
                 /\ \A i \in 1..n : u[i].start <= u[i].end
                 /\ \A i \in 1..(n - 1) : u[i].end <= u[i + 1].start } :
            n \in 0..MaxItems }

DurationChoices == { TicksPerCs, 2 * TicksPerCs }
CharChoices == { 0, 2, 3 }
LineChoices == { 0, 1, 2, 3 }

\* _optimize_segmentation is called on any utterance sequence, with any caps
InitOptimize ==
    /\ \E md \in DurationChoices, mc \in CharChoices, ml \in LineChoices :
          config = [ MainConfig EXCEPT !.max_duration = md, !.max_chars = mc,
                                       !.max_lines = ml ]
    /\ punctuator = "none"
    /\ main_pc = "loop"
    /\ error = "none"
    /\ video_index = 1
    /\ pf_pc = "optimize"
    /\ audio_files = { 1 }
    /\ results = << >>
    /\ items \in UtteranceSeqs
    /\ pos = 1
    /\ opt = EmptyOpt
    /\ files = NoFiles
    /\ fmt_in = 0
    /\ fmt_out = NoOutput

NextOptimize == OptimizeIter \/ OptimizeReturn

SpecOptimize == InitOptimize /\ [][NextOptimize]_vars

\* 0 s, 1.5 s and 3725.6 s
RenderTimes == { 0, 3 * (TicksPerSecond \div 2), (3725 * TicksPerSecond) + (6 * 100 * TicksPerMs) }
RenderTexts == { Sentence(1), Sentence(2) \o << NL >> \o Sentence(1) }

CuePool ==
    { c \in [ start : RenderTimes, end : RenderTimes, text : RenderTexts,
              confidence : { 90 }, speaker : { SPK1 } ] : c.start <= c.end }

CueSeqs == UNION { [1..n -> CuePool] : n \in 0..MaxCues }

\* _generate_srt is called on any cue sequence, with either speaker setting
InitRender ==
    /\ \E sd \in BOOLEAN : config = [ MainConfig EXCEPT !.speaker_diarization = sd ]
    /\ punctuator = "none"
    /\ main_pc = "loop"
    /\ error = "none"
    /\ video_index = 1
    /\ pf_pc = "generate"
    /\ audio_files = { 1 }
    /\ results = << >>
    /\ items = << >>
    /\ pos = 1
    /\ \E cs \in CueSeqs :
          opt = [ optimized |-> cs, buffer |-> << >>, merged_from |-> << >> ]
    /\ files = NoFiles
    /\ fmt_in = 0
    /\ fmt_out = NoOutput

NextRender == GenerateSrt \/ GenerateSrtFails

SpecRender == InitRender /\ [][NextRender]_vars

FormatHours == { 0, 1, 25, 100 }
FormatMinutes == { 0, 2, 59 }
FormatSeconds60 == { 0, 5, 59 }
\* fractions of a second, in ticks: 0, 0.4 ms, 0.6 ms, 0.6 s, 0.9994 s, 0.9996 s
FormatFractions == { 0, 2, 3, 600 * TicksPerMs, TicksPerSecond - 3, TicksPerSecond - 2 }

\* the arguments of _format_time, in ticks
FormatInputs ==
    { ((h * SecondsPerHour + m * SecondsPerMinute + sec) * TicksPerSecond) + f :
        h \in FormatHours, m \in FormatMinutes, sec \in FormatSeconds60,
        f \in FormatFractions }

InitFormat ==
    /\ config = MainConfig
    /\ punctuator = "none"
    /\ main_pc = "loop"
    /\ error = "none"
    /\ video_index = 1
    /\ pf_pc = "generate"
    /\ audio_files = { 1 }
    /\ results = << >>
    /\ items = << >>
    /\ pos = 1
    /\ opt = EmptyOpt
    /\ files = NoFiles
    /\ fmt_in \in FormatInputs
    /\ fmt_out = NoOutput

NextFormat == FormatCall

SpecFormat == InitFormat /\ [][NextFormat]_vars

\* ------------------------------------------------- reading a rendered text
DigitSet == { DigitChars[i] : i \in 1..10 }

IsDigits(s) == Len(s) > 0 /\ \A i \in 1..Len(s) : s[i] \in DigitSet

DigitValue(c) == CHOOSE d \in 0..9 : DigitChars[d + 1] = c

RECURSIVE ParseNat(_)
ParseNat(s) ==
    IF Len(s) = 0 THEN 0
    ELSE (ParseNat(SubSeq(s, 1, Len(s) - 1)) * 10) + DigitValue(s[Len(s)])

\* tc reads HH:MM:SS,mmm with HH of two digits or more
IsTimecode(tc) ==
    LET p == SplitOn(":", tc)
    IN  /\ Len(p) = 3
        /\ IsDigits(p[1]) /\ Len(p[1]) >= 2
        /\ IsDigits(p[2]) /\ Len(p[2]) = 2
        /\ LET q == SplitOn(",", p[3])
           IN  /\ Len(q) = 2
               /\ IsDigits(q[1]) /\ Len(q[1]) = 2
               /\ IsDigits(q[2]) /\ Len(q[2]) = 3

TimecodeFields(tc) ==
    LET p == SplitOn(":", tc)
        q == SplitOn(",", p[3])
    IN  [ hh |-> ParseNat(p[1]), mm |-> ParseNat(p[2]),
          ss |-> ParseNat(q[1]), mmm |-> ParseNat(q[2]) ]

\* the milliseconds a timecode stands for
TimecodeMs(tc) ==
    LET f == TimecodeFields(tc)
    IN  (((f.hh * 60 + f.mm) * 60 + f.ss) * 1000) + f.mmm

RECURSIVE BlocksOfLines(_)
\* the blocks of a list of lines, each block ended by an empty line
BlocksOfLines(lines) ==
    IF Len(lines) = 0 THEN << >>
    ELSE IF \A i \in 1..Len(lines) : lines[i] # << >> THEN << lines >>
    ELSE LET k == CHOOSE i \in 1..Len(lines) :
                      lines[i] = << >> /\ \A j \in 1..(i - 1) : lines[j] # << >>
         IN  << SubSeq(lines, 1, k - 1) >>
                 \o BlocksOfLines(SubSeq(lines, k + 1, Len(lines)))

\* the blocks of a subtitle document, each a sequence of lines
BlocksOf(doc) == IF doc = << >> THEN << >> ELSE BlocksOfLines(SplitOn(NL, doc))

IsPrefix(a, b) == Len(a) <= Len(b) /\ SubSeq(b, 1, Len(a)) = a

\* the lines of a cue text and their summed length
LinesOf(text) == SplitOn(NL, text)
SummedLineLength(text) ==
    SumOf([i \in 1..Len(LinesOf(text)) |-> Len(LinesOf(text)[i])])

\* ----------------------------------------------------- optimizer properties
\* the loop of _optimize_segmentation has ended and optimized was returned
Optimized == pf_pc \in { "generate", "cleanup" } /\ pos > Len(items)

TextsOf(us) == [i \in 1..Len(us) |-> us[i].text]

\* C1: the constituent utterances of the returned cues, concatenated in cue
\* order, are exactly the input sequence: every cue is the merge of a
\* non-empty run of consecutive utterances, its lines are their texts, and
\* the runs put end to end give back the input, nothing lost, duplicated,
\* reordered or split; while the loop runs the same holds of the cues
\* flushed so far followed by the buffer and the utterances already read.
C1_Coverage ==
    /\ Len(opt.optimized) = Len(opt.merged_from)
    /\ \A k \in 1..Len(opt.optimized) :
          LET run == opt.merged_from[k]
              cue == opt.optimized[k]
          IN  /\ Len(run) > 0
              /\ cue.start = run[1].start
              /\ cue.end = run[Len(run)].end
              /\ LinesOf(cue.text) = TextsOf(run)
    /\ pos <= Len(items) + 1
    /\ Flatten(opt.merged_from) \o opt.buffer = SubSeq(items, 1, pos - 1)
    /\ Optimized => Flatten(opt.merged_from) = items

\* C1 witness: three utterances were returned as two cues, one of them
\* built from two utterances
C1_Witness ==
    /\ Optimized
    /\ Len(items) = 3
    /\ Len(opt.optimized) = 2
    /\ \E k \in 1..2 : Len(opt.merged_from[k]) = 2

\* C2 as stated: every returned cue built from more than one utterance has
\* end - start <= max_duration, a text of at most max_chars * max_lines
\* characters, and at most max_lines lines.
C2_CapRespectOriginal ==
    Optimized =>
        \A k \in 1..Len(opt.optimized) :
            Len(opt.merged_from[k]) > 1 =>
                LET cue == opt.optimized[k]
                IN  /\ cue.end - cue.start <= config.max_duration
                    /\ Len(cue.text) <= config.max_chars * config.max_lines
                    /\ Len(LinesOf(cue.text)) <= config.max_lines

\* C2 amended: every returned cue built from more than one utterance has
\* end - start <= max_duration, lines whose lengths sum to at most
\* max_chars * max_lines (the line breaks joining them not counted), and at
\* most max_lines lines.
C2_CapRespect ==
    Optimized =>
        \A k \in 1..Len(opt.optimized) :
            Len(opt.merged_from[k]) > 1 =>
                LET cue == opt.optimized[k]
                IN  /\ cue.end - cue.start <= config.max_duration
                    /\ SummedLineLength(cue.text) <= config.max_chars * config.max_lines
                    /\ Len(LinesOf(cue.text)) <= config.max_lines

\* C2 witness: a returned cue of two utterances meets the character budget
\* exactly, so that its text with the line break is longer than the budget
C2_Witness ==
    /\ Optimized
    /\ \E k \in 1..Len(opt.optimized) :
          /\ Len(opt.merged_from[k]) = 2
          /\ SummedLineLength(opt.optimized[k].text) = config.max_chars * config.max_lines
          /\ Len(opt.optimized[k].text) > config.max_chars * config.max_lines

\* an utterance that is over the text limits on its own
ExceedsAlone(u) == Len(u.text) > config.max_chars \/ config.max_lines < 1

\* C3: every returned cue has at most max_lines lines, each of at most
\* max_chars characters, unless it was formed from one utterance that is
\* over the limits on its own.
C3_LineLimits ==
    Optimized =>
        \A k \in 1..Len(opt.optimized) :
            LET cue == opt.optimized[k]
                run == opt.merged_from[k]
            IN  \/ /\ Len(LinesOf(cue.text)) <= config.max_lines
                   /\ \A i \in 1..Len(LinesOf(cue.text)) :
                         Len(LinesOf(cue.text)[i]) <= config.max_chars
                \/ Len(run) = 1 /\ ExceedsAlone(run[1])

\* the three caps of the claim, for the utterance u and the utterances b
\* before it in its cue
Joins(b, u) ==
    /\ u.end - b[1].start <= config.max_duration
    /\ SumOf([i \in 1..Len(b) |-> Len(b[i].text)]) + Len(u.text)
           <= config.max_chars * config.max_lines
    /\ Len(b) < config.max_lines

\* the runs of utterances decided so far: the flushed cues, then the buffer
Runs == IF Len(opt.buffer) > 0 THEN Append(opt.merged_from, opt.buffer)
        ELSE opt.merged_from

\* C10: an utterance joins the cue before it exactly when all three caps
\* hold with it added (equality accepted): every utterance after the first
\* of a run met the caps against the utterances before it in the run, the
\* first utterance of every later run broke a cap against the whole run
\* before it, and a step never changes the cues already flushed.
C10_Boundaries ==
    /\ [](\A k \in 1..Len(Runs) :
             /\ \A j \in 2..Len(Runs[k]) : Joins(SubSeq(Runs[k], 1, j - 1), Runs[k][j])
             /\ k > 1 => ~Joins(Runs[k - 1], Runs[k][1]))
    /\ [][IsPrefix(opt.optimized, opt.optimized')]_vars

\* C10 witness: an utterance was accepted with the duration cap met exactly
\* and a later utterance caused a flush
C10_Witness ==
    /\ Optimized
    /\ Len(opt.merged_from) >= 2
    /\ Len(opt.merged_from[1]) >= 2
    /\ opt.merged_from[1][2].end - opt.merged_from[1][1].start = config.max_duration

\* ------------------------------------------------------ pipeline properties
\* the exceptions raised inside process_file
PipelineErrors == { "CalledProcessError", "TranscribeError", "KeyError", "OSError" }

\* C4: when the pipeline fails for one file of the batch, every other file is
\* still processed: a run that ends after a failure inside process_file has
\* called process_file on every video of the batch.
C4_FailureIsolation ==
    (main_pc \in { "done", "raised" } /\ pf_pc = "raised" /\ error \in PipelineErrors)
        => video_index = Len(config.video_paths)

\* C5: the subtitle file of an input is written only once its cue sequence
\* is final: a step changes the files only when process_file is at its
\* _generate_srt call with the optimizer's loop over, its buffer flushed and
\* every utterance in a cue, and then only the file of the current input; so
\* a failure in an earlier step creates or modifies no subtitle file.
C5_WriteAfterFinal ==
    [][ files' # files =>
          /\ pf_pc = "generate"
          /\ pos > Len(items)
          /\ opt.buffer = << >>
          /\ Flatten(opt.merged_from) = items
          /\ Len(opt.optimized) = Len(opt.merged_from)
          /\ \A st \in Stems : st # CurrentStem => files'[st] = files[st] ]_vars

\* C5 witness: the first file was written, the second failed in
\* transcription and has no subtitle file
C5_Witness ==
    /\ video_index = 2
    /\ pf_pc = "raised"
    /\ error = "KeyError"
    /\ files[Stem(VideoA)].exists
    /\ Len(files[Stem(VideoA)].text) > 0
    /\ ~files[Stem(VideoB)].exists

\* a configuration error of the documented configuration surface
ConfigError(cfg) ==
    \/ ~(RequiredKeys \subseteq cfg.keys)
    \/ ~cfg.model_exists
    \/ "max_duration" \in cfg.keys /\ cfg.max_duration <= 0
    \/ "max_chars" \in cfg.keys /\ cfg.max_chars <= 0
    \/ "max_lines" \in cfg.keys /\ cfg.max_lines < 1

\* C6: every configuration error is raised when the generator is
\* constructed: with such a configuration the run never gets past
\* construction, process_file is never entered and no file is written.
C6_ConfigErrorsFatal ==
    ConfigError(config) =>
        /\ main_pc \in { "construct", "raised" }
        /\ pf_pc = "idle"
        /\ video_index = 0
        /\ \A st \in Stems : ~files[st].exists

\* process_file has got past _transcribe_audio
Transcribed == pf_pc \in { "optimize", "generate", "cleanup" }

\* the result groups with a non-empty word list, in order
WordGroups(rs) == LET NonEmpty(r) == Len(r.result) > 0 IN SelectSeq(rs, NonEmpty)

\* C7: the normalizer emits one utterance per result group with a non-empty
\* word list, in input order, and skips a group that has no words or is
\* malformed: no result list makes transcription raise, and the utterances
\* returned are those of the groups with words, with the first word's start
\* and the last word's end rounded to two decimals.
C7_NormalizerSkips ==
    /\ Len(results) > 0 => error # "KeyError"
    /\ Transcribed =>
          /\ Len(items) = Len(WordGroups(results))
          /\ \A i \in 1..Len(items) :
                LET words == WordGroups(results)[i].result
                IN  /\ items[i].start = Round2(words[1].start)
                    /\ items[i].end = Round2(words[Len(words)].end)

\* ------------------------------------------------------ renderer properties
\* the line "start --> end" of a block, as its three space-separated fields
TimeLine(line) == SplitOn(" ", line)

\* C8: for a cue sequence of length n the written document has exactly n
\* blocks; the k-th block has the index k on its first line, the start and
\* end of the k-th cue on its second, and the text of the k-th cue (after
\* the speaker tag when tags are shown) as its remaining lines; for n = 0
\* the document is empty.
C8_RenderBlocks ==
    (pf_pc = "cleanup" /\ files[CurrentStem].exists) =>
        LET doc == files[CurrentStem].text
            blocks == BlocksOf(doc)
            cues == opt.optimized
        IN  /\ Len(blocks) = Len(cues)
            /\ Len(cues) = 0 => doc = << >>
            /\ \A k \in 1..Len(blocks) :
                  LET b == blocks[k]
                      prefix == IF config.speaker_diarization
                                THEN << "[" >> \o cues[k].speaker \o << "]", " " >>
                                ELSE << >>
                  IN  /\ Len(b) >= 3
                      /\ IsDigits(b[1]) /\ ParseNat(b[1]) = k
                      /\ Len(TimeLine(b[2])) = 3
                      /\ TimeLine(b[2])[2] = << "-", "-", ">" >>
                      /\ IsTimecode(TimeLine(b[2])[1])
                      /\ IsTimecode(TimeLine(b[2])[3])
                      /\ TimecodeMs(TimeLine(b[2])[1]) * TicksPerMs = cues[k].start
                      /\ TimecodeMs(TimeLine(b[2])[3]) * TicksPerMs = cues[k].end
                      /\ JoinWith(<<NL>>, SubSeq(b, 3, Len(b))) = prefix \o cues[k].text

\* C8 witness: two cues were written with speaker tags, the second with a
\* text of two lines and a start over an hour
C8_Witness ==
    /\ pf_pc = "cleanup"
    /\ files[CurrentStem].exists
    /\ config.speaker_diarization
    /\ Len(opt.optimized) = 2
    /\ Len(LinesOf(opt.optimized[2].text)) = 2
    /\ opt.optimized[2].start > SecondsPerHour * TicksPerSecond
    /\ Len(BlocksOf(files[CurrentStem].text)) = 2

\* ----------------------------------------------------- formatter properties
\* C9: for every non-negative time the timecode reads HH:MM:SS,mmm with HH
\* the whole hours in two digits or more, MM and SS two digits in 00..59,
\* mmm three digits, the fields adding up to the time to the millisecond;
\* 0.0 gives 00:00:00,000 and 3725.6 gives 01:02:05,600.
C9_Timecode ==
    fmt_out.returned =>
        LET tc == fmt_out.text
            f == TimecodeFields(tc)
        IN  /\ IsTimecode(tc)
            /\ f.hh = fmt_in \div (SecondsPerHour * TicksPerSecond)
            /\ f.mm \in 0..59
            /\ f.ss \in 0..59
            /\ f.mmm \in 0..999
            /\ 2 * (TimecodeMs(tc) * TicksPerMs - fmt_in) < TicksPerMs
            /\ 2 * (fmt_in - TimecodeMs(tc) * TicksPerMs) < TicksPerMs
            /\ fmt_in = 0 =>
                  tc = << "0", "0", ":", "0", "0", ":", "0", "0", ",", "0", "0", "0" >>
            /\ fmt_in = (3725 * TicksPerSecond) + (600 * TicksPerMs) =>
                  tc = << "0", "1", ":", "0", "2", ":", "0", "5", ",", "6", "0", "0" >>

====
